---------------------------- MODULE Spec2Model ----------------------------
(***************************************************************************)
(* CashX cashback backend (src/backend/server.py): the transaction         *)
(* verification and balance settlement workflow.                           *)
(*                                                                         *)
(* The store is the MongoDB database `db`: the collections users,          *)
(* products, transactions and redemption_requests.  Every single store     *)
(* call (find_one, insert_one, update_one) is atomic; a request handler is  *)
(* a coroutine that may be suspended at each `await`, so other handlers    *)
(* run between two store calls of one handler.                             *)
(*                                                                         *)
(* The specifications share the store and the store operations:            *)
(*   SeqSpec     every request runs from its first to its last store call  *)
(*               with no other request in between (one at a time);         *)
(*   FlowSpec    one at a time as well: the life of one claim, with the    *)
(*               payout destinations, more products and more amounts;      *)
(*   Spec        requests are run by the worker slots Procs, one store     *)
(*               call per step, interleaved arbitrarily, and a worker may  *)
(*               stop between two store calls;                             *)
(*   LedgerSpec  the balance updates of Spec alone, over more              *)
(*               transactions;                                             *)
(*   FrameSpec   one at a time: every handler that writes, with            *)
(*               seed_products and the listing handlers;                   *)
(*   ListSpec    one at a time: many small redemptions and their listing;  *)
(*   RegSpec     register_user, one store call per step, interleaved.      *)
(*                                                                         *)
(* Money is a Python float in the source.  The model keeps it in tenths of *)
(* a currency unit (50 is 5.0) and a cashback percentage in tenths of a    *)
(* percent (35 is 3.5 %); the inputs are chosen so that every product and  *)
(* quotient is exact, and float rounding is not modelled.                  *)
(***************************************************************************)
EXTENDS Integers, Sequences, FiniteSets, TLC

(* ------------------------------ bounds --------------------------------- *)

\* SeqSpec: requests that change the store, over a whole run
MaxServed == 3
\* Spec: a claim is accepted only while the store holds fewer transactions
MaxTx == 1
\* Spec: a redemption is accepted only while the store holds fewer requests
MaxRedemptions == 1
\* Spec: a verification is accepted only while fewer credits were applied
MaxCredits == 2
\* Spec: worker slots running requests concurrently
MaxProcs == 2
\* LedgerSpec: a claim is accepted only while the store holds fewer
\* transactions
MaxLedgerTx == 2
\* ListSpec: a redemption is accepted only while the store holds fewer
\* requests
MaxListed == 101
\* FrameSpec: the catalogues seeded over a whole run, the one the run starts
\* with included
MaxSeeds == 2
\* FlowSpec: a record is added to db.bank_accounts (db.upi_details) only
\* while the collection holds fewer records
MaxAccounts == 1

\* RegSpec: a registration starts only while db.users holds fewer documents
MaxUsers == 4

(* --------------------------- program constants ------------------------- *)

\* to_list(100) of get_user_transactions and get_redemption_requests
ListLimit == 100
\* to_list(10) of get_bank_accounts and get_upi_details
AccountListLimit == 10

(* ------------------------------ values --------------------------------- *)

\* Python's None
None == "None"

\* class TransactionStatus
PENDING == "pending"
VERIFIED == "verified"
REJECTED == "rejected"
TransactionStatus == {PENDING, VERIFIED, REJECTED}

\* class VerificationMethod
WEBHOOK == "webhook"
MANUAL == "manual"
SELF_REPORTED == "self_reported"

\* class RedemptionMethod
BANK_TRANSFER == "bank_transfer"
UPI == "upi"

\* registered users (ids of the documents of db.users)
UserIds == {"u1", "u2"}
\* the same in the order of their registration, and their emails
InitialUsers == <<"u1", "u2">>
InitialEmails == <<"e1", "e2">>

\* the cashback_percent of the products seed_products inserts, in tenths of
\* a percent, in the order of the list
SeedPercents == <<50, 35, 40, 20, 60, 55>>

\* the id of the i-th product of the g-th catalogue (a fresh uuid4 per seed)
ProductId(g, i) == <<g, i>>

\* the documents seed_products inserts on its g-th call
SeededProducts(g) ==
    { [id |-> ProductId(g, i), cashback_percent |-> SeedPercents[i]] :
        i \in 1..Len(SeedPercents) }

(* --------------------------- request inputs ---------------------------- *)

\* TransactionCreate.product_id: the first product of the catalogue, and an
\* id the catalogue does not hold
ProductIdInputs == { ProductId(1, 1), <<0, 0>> }
\* TransactionCreate.amount, in tenths (100.0)
ClaimAmounts == {1000}
\* amazon_order_id of a claim (optional) and of a webhook payload
OrderIds == {"o1", "o2"}
ClaimOrderInputs == {None, "o1"}
WebhookOrderInputs == {None} \cup OrderIds
\* RedemptionRequestCreate.amount, in tenths (-5.0, 0.0, 5.0, 10.0)
RedeemAmounts == {-50, 0, 50, 100}
\* RedemptionRequestCreate (method, bank_account_id, upi_id)
RedeemDestinations ==
    { <<BANK_TRANSFER, "b1", None>>, <<BANK_TRANSFER, None, None>>,
      <<UPI, None, None>> }
\* transaction_id of admin_verify_transaction: the ids the store may hold
\* and one more, which it never holds
TxIdInputs == 1..(MaxTx + 1)

\* The inputs of FlowSpec, the life of one claim from its submission to the
\* redemption of its cashback: two products of the catalogue and an id the
\* catalogue does not hold, claim amounts in tenths (-100.0, 0.0, 100.0),
\* the order id the webhook reports
FlowProductIds == { ProductId(1, 1), ProductId(1, 2), <<0, 0>> }
FlowClaimAmounts == {-1000, 0, 1000}
FlowOrderIds == {"o1"}
\* the ids of the documents of db.bank_accounts, in insertion order (a fresh
\* uuid4 each)
AccountIds == <<"b1", "b2", "b3">>
\* upi_details["upi_id"] of add_upi
UpiIds == {"v1"}
\* RedemptionRequestCreate (method, bank_account_id, upi_id) naming the first
\* bank account and the UPI id
FlowDestinations ==
    { <<BANK_TRANSFER, AccountIds[1], None>> }
        \cup { <<UPI, None, v>> : v \in UpiIds }

\* The inputs of ListSpec: a claim of 300.0 (cashback 15.0) and redemptions
\* of 0.1
ListClaimAmounts == {3000}
ListRedeemAmounts == {1}

\* The inputs of FrameSpec: the first product of the first and of the second
\* catalogue
FrameProductIds == { ProductId(1, 1), ProductId(2, 1) }
\* the statuses a manual verification decides on
FrameStatuses == {VERIFIED, REJECTED}

\* The inputs of the requests that run concurrently (Spec): one user, one
\* order id, valid requests only, so that the interleavings of the store
\* calls, and not the variety of the inputs, make up the state space.
ConcUserIds == {"u1"}
ConcProductIds == { ProductId(1, 1) }
ConcOrderIds == {"o1"}
ConcRedeemAmounts == {50}
ConcDestinations == { <<BANK_TRANSFER, "b1", None>> }
ConcStatuses == TransactionStatus
ConcTxIds == 1..MaxTx

(* ------------------------------- state --------------------------------- *)

VARIABLES
    cashback_balance,     \* db.users: user id -> cashback_balance
    products,             \* db.products: the set of product documents
    transactions,         \* db.transactions, in insertion order; the id of
                          \* a transaction is its position
    redemption_requests,  \* db.redemption_requests, in insertion order
    credits,              \* history: credits[t] counts the $inc applied to
                          \* users on behalf of transaction t
    debited,              \* history: debited[u] sums the amounts the
                          \* redemption handler took from user u's balance
    response,             \* the response last sent to a caller
    served,               \* the claims, verifications and redemptions
                          \* served so far that changed the store (not
                          \* counted by Spec)
    procs,                \* Spec only: the request each worker is running
    bank_accounts,        \* db.bank_accounts, in insertion order
    upi_details,          \* db.upi_details, in insertion order
    users                 \* db.users, in insertion order: the id and the
                          \* email of each document

\* the collections that no claim, verification or redemption writes: the
\* users' payout destinations and the users' identities
accounts == <<bank_accounts, upi_details, users>>
store == <<cashback_balance, products, transactions,
           redemption_requests, credits, debited, accounts>>
vars == <<cashback_balance, products, transactions,
          redemption_requests, credits, debited, response, served, procs,
          bank_accounts, upi_details, users>>

\* HTTPException(status_code, detail), and the 200 responses
Response(code, detail) == [status_code |-> code, detail |-> detail]
\* the 200 response of a listing handler: the list it returns
ListResponse(detail, body) ==
    [status_code |-> 200, detail |-> detail, body |-> body]
NoResponse == Response(0, "none")

\* a worker with no request
Idle ==
    [op |-> "idle", pc |-> "idle", user |-> None, amount |-> 0,
     dest |-> <<None, None, None>>, product |-> <<0, 0>>, order |-> None,
     tx |-> 0, status |-> None, percent |-> 0, balance |-> 0,
     tx_user |-> None, tx_cashback |-> 0, tx_status |-> None,
     email |-> None]

Procs == 1..MaxProcs

(* --------------------------- store operations -------------------------- *)

\* mutant of the lookup by order id: the filter matches every document
FindByOrder_first(txs, order_id) == IF txs = <<>> THEN 0 ELSE 1

\* db.transactions.find_one({"amazon_order_id": order_id}): the position of
\* the first document that matches (insertion order), 0 if none matches
FindByOrder(txs, order_id) ==
    LET m == { i \in 1..Len(txs) : txs[i].amazon_order_id = order_id }
    IN  IF m = {} THEN 0 ELSE CHOOSE i \in m : \A j \in m : i <= j

\* mutant of the lookup by id: the filter matches every document
FindById_first(txs, transaction_id) == IF txs = <<>> THEN 0 ELSE 1

\* db.transactions.find_one({"id": transaction_id})
FindById(txs, transaction_id) ==
    IF transaction_id \in 1..Len(txs) THEN transaction_id ELSE 0

\* db.products.find_one({"id": product_id}) returns a document
ProductFound(prods, product_id) == \E d \in prods : d.id = product_id

\* product["cashback_percent"] of the document find_one returned
ProductPercent(prods, product_id) ==
    (CHOOSE d \in prods : d.id = product_id).cashback_percent

\* find({"user_id": user_id}): the matching documents in insertion order
RECURSIVE FindByUser(_, _)
FindByUser(recs, user_id) ==
    IF recs = <<>> THEN <<>>
    ELSE (IF recs[1].user_id = user_id THEN <<recs[1]>> ELSE <<>>)
         \o FindByUser(Tail(recs), user_id)

\* cursor.to_list(length): at most `length` documents of the cursor
ToList(cursor, length) ==
    SubSeq(cursor, 1, IF Len(cursor) < length THEN Len(cursor) ELSE length)

\* the catalogue that db.products holds is the g-th one seeded
Generation(prods) ==
    CHOOSE g \in 1..MaxSeeds : \E d \in prods : d.id[1] = g

\* mutant of the verification update: the $set also clears cashback_amount
SetVerification_clear(txs, i, status, method) ==
    IF i = 0 THEN txs
    ELSE [txs EXCEPT ![i] = [@ EXCEPT !.status = status,
                                      !.verification_method = method,
                                      !.cashback_amount = 0]]

\* update_one(filter, {"$set": {status, verification_method}}) on the
\* document at position i (0: no document matches, nothing changes)
SetVerification(txs, i, status, method) ==
    IF i = 0 THEN txs
    ELSE [txs EXCEPT ![i] = [@ EXCEPT !.status = status,
                                      !.verification_method = method]]

\* mutant of the balance update: $set of the delta in place of $inc (the
\* value the balance had is lost)
IncBalance_set(bal, user_id, delta) ==
    IF user_id \in DOMAIN bal THEN [bal EXCEPT ![user_id] = delta] ELSE bal

\* mutant of the balance update: the filter matches every user
IncBalance_all(bal, user_id, delta) == [v \in DOMAIN bal |-> bal[v] + delta]

\* db.users.update_one({"id": user_id}, {"$inc": {"cashback_balance": delta}})
IncBalance(bal, user_id, delta) ==
    IF user_id \in DOMAIN bal THEN [bal EXCEPT ![user_id] = @ + delta] ELSE bal

\* the history of credits: one more $inc on behalf of transaction t
CountCredit(cr, t) == [cr EXCEPT ![t] = @ + 1]

(* ----------------------------- pure steps ------------------------------ *)

\* mutant of the cashback: the percentage taken as a factor
CashbackAmount_factor(amount, percent) == (amount * percent) \div 10

\* cashback_amount = (transaction.amount * product["cashback_percent"]) / 100
\* amount in tenths, percent in tenths of a percent, result in tenths
CashbackAmount(amount, percent) == (amount * percent) \div 1000

\* Transaction(user_id=..., ..., status=PENDING by default)
NewTransaction(user_id, product_id, order_id, amount, cashback_amount) ==
    [user_id |-> user_id, product_id |-> product_id,
     amazon_order_id |-> order_id, amount |-> amount,
     cashback_amount |-> cashback_amount, status |-> PENDING,
     verification_method |-> SELF_REPORTED]

\* RedemptionRequest(user_id=..., amount=..., method=..., ...)
NewRedemption(user_id, amount, dest) ==
    [user_id |-> user_id, amount |-> amount, method |-> dest[1],
     status |-> "pending", bank_account_id |-> dest[2], upi_id |-> dest[3]]

\* BankAccount(user_id=current_user.id, ..., is_default=...)
NewBankAccount(id, user_id, is_default) ==
    [id |-> id, user_id |-> user_id, is_default |-> is_default]

\* UPIDetails(user_id=current_user.id, upi_id=..., is_default=...)
NewUPIDetails(user_id, upi_id, is_default) ==
    [user_id |-> user_id, upi_id |-> upi_id, is_default |-> is_default]

\* update_many({"user_id": user_id}, {"$set": {"is_default": False}})
UnsetDefaults(recs, user_id) ==
    [i \in DOMAIN recs |->
        IF recs[i].user_id = user_id
        THEN [recs[i] EXCEPT !.is_default = FALSE] ELSE recs[i]]

\* mutants of the balance check: it tests only that the balance is not
\* negative; its operands are swapped
InsufficientBalance_sign(balance, amount) == balance < 0
InsufficientBalance_swapped(balance, amount) == amount < balance
\* ... and: it refuses a request for the whole balance
InsufficientBalance_strict(balance, amount) == balance <= amount

\* if current_user.cashback_balance < redemption.amount
InsufficientBalance(balance, amount) == balance < amount

\* mutant of the method-detail checks: both always pass
DestinationError_none(dest) == None

\* the two checks of the redemption method details; None when both pass
DestinationError(dest) ==
    IF dest[1] = BANK_TRANSFER /\ dest[2] = None
    THEN "Bank account ID is required for bank transfers"
    ELSE IF dest[1] = UPI /\ dest[3] = None
    THEN "UPI ID is required for UPI transfers"
    ELSE None

\* the HTTPException create_redemption_request raises before it touches the
\* store, given the balance get_current_user read; NoResponse when it
\* raises none
RedemptionError(balance, amount, dest) ==
    IF InsufficientBalance(balance, amount)
    THEN Response(400, "Insufficient cashback balance")
    ELSE IF DestinationError(dest) # None
    THEN Response(400, DestinationError(dest))
    ELSE NoResponse

RECURSIVE SumSeq(_)
SumSeq(s) == IF s = <<>> THEN 0 ELSE s[1] + SumSeq(Tail(s))

\* fewer than MaxCredits credits have been applied
WithinCap(cr) == SumSeq(cr) < MaxCredits

(* ------------------------------ initial -------------------------------- *)

\* two registered users with the default balance 0.0, the catalogue seeded
\* once, no transaction, no redemption request, no request running
Init ==
    /\ cashback_balance = [u \in UserIds |-> 0]
    /\ products = SeededProducts(1)
    /\ transactions = <<>>
    /\ redemption_requests = <<>>
    /\ credits = <<>>
    /\ debited = [u \in UserIds |-> 0]
    /\ response = NoResponse
    /\ served = 0
    /\ procs = [p \in Procs |-> Idle]
    /\ bank_accounts = <<>>
    /\ upi_details = <<>>
    /\ users = [i \in 1..Len(InitialUsers) |->
                   [id |-> InitialUsers[i], email |-> InitialEmails[i]]]

(* ---------------- SeqSpec: one request at a time ----------------------- *)

\* POST /transactions by user u
create_transaction(u, product_id, order_id, amount) ==
    /\ IF ~ProductFound(products, product_id)
       THEN /\ response' = Response(404, "Product not found")
            /\ UNCHANGED <<transactions, credits, served>>
       ELSE /\ served < MaxServed
            /\ served' = served + 1
            /\ transactions' = Append(transactions,
                   NewTransaction(u, product_id, order_id, amount,
                       CashbackAmount(amount,
                                      ProductPercent(products, product_id))))
            /\ credits' = Append(credits, 0)
            /\ response' = Response(200, "transaction")
    /\ UNCHANGED <<cashback_balance, products, accounts, redemption_requests,
                   debited, procs>>

\* POST /redemptions by user u; get_current_user reads u's document, the
\* handler checks the balance it read, debits with $inc and inserts.  This
\* is the handler without the count of the requests served.
create_redemption_request_uncounted(u, amount, dest) ==
    /\ IF RedemptionError(cashback_balance[u], amount, dest) # NoResponse
       THEN /\ response' = RedemptionError(cashback_balance[u], amount, dest)
            /\ UNCHANGED <<cashback_balance, redemption_requests, debited>>
       ELSE /\ cashback_balance' = IncBalance(cashback_balance, u, -amount)
            /\ debited' = [debited EXCEPT ![u] = @ + amount]
            /\ redemption_requests' =
                   Append(redemption_requests, NewRedemption(u, amount, dest))
            /\ response' = Response(200, "redemption")
    /\ UNCHANGED <<products, accounts, transactions, credits, procs>>

\* POST /redemptions by user u, counted among the requests served
create_redemption_request(u, amount, dest) ==
    /\ IF RedemptionError(cashback_balance[u], amount, dest) # NoResponse
       THEN /\ response' = RedemptionError(cashback_balance[u], amount, dest)
            /\ UNCHANGED <<cashback_balance, redemption_requests, debited,
                           served>>
       ELSE /\ served < MaxServed
            /\ served' = served + 1
            /\ cashback_balance' = IncBalance(cashback_balance, u, -amount)
            /\ debited' = [debited EXCEPT ![u] = @ + amount]
            /\ redemption_requests' =
                   Append(redemption_requests, NewRedemption(u, amount, dest))
            /\ response' = Response(200, "redemption")
    /\ UNCHANGED <<products, accounts, transactions, credits, procs>>

\* POST /webhooks/amazon-associates with payload {"amazon_order_id": order_id}
amazon_associates_webhook(order_id) ==
    /\ IF order_id = None
       THEN /\ response' = Response(400, "Missing order ID")
            /\ UNCHANGED <<cashback_balance, transactions, credits, served>>
       ELSE IF FindByOrder(transactions, order_id) = 0
       THEN /\ response' = Response(200, "No matching transaction found")
            /\ UNCHANGED <<cashback_balance, transactions, credits, served>>
       ELSE LET t == FindByOrder(transactions, order_id)
                transaction == transactions[t]
            IN  /\ served < MaxServed
                /\ served' = served + 1
                /\ transactions' = SetVerification(transactions,
                       FindByOrder(transactions, order_id), VERIFIED, WEBHOOK)
                /\ cashback_balance' = IncBalance(cashback_balance,
                       transaction.user_id, transaction.cashback_amount)
                /\ credits' = CountCredit(credits, t)
                /\ response' = Response(200, "success")
    /\ UNCHANGED <<products, accounts, redemption_requests, debited, procs>>

\* mutant of admin_verify_transaction: it credits the owner whatever the
\* new status is
admin_verify_transaction_credits(u, transaction_id, status) ==
    /\ IF FindById(transactions, transaction_id) = 0
       THEN /\ response' = Response(404, "Transaction not found")
            /\ UNCHANGED <<cashback_balance, transactions, credits, served>>
       ELSE LET t == FindById(transactions, transaction_id)
                transaction == transactions[t]
            IN  /\ served < MaxServed
                /\ served' = served + 1
                /\ transactions' = SetVerification(transactions,
                       FindById(transactions, transaction_id), status, MANUAL)
                /\ cashback_balance' = IncBalance(cashback_balance,
                       transaction.user_id, transaction.cashback_amount)
                /\ credits' = CountCredit(credits, t)
                /\ response' = Response(200, "success")
    /\ UNCHANGED <<products, accounts, redemption_requests, debited, procs>>

\* mutant of admin_verify_transaction: it credits the acting user in place
\* of the transaction's owner
admin_verify_transaction_actor(u, transaction_id, status) ==
    /\ IF FindById(transactions, transaction_id) = 0
       THEN /\ response' = Response(404, "Transaction not found")
            /\ UNCHANGED <<cashback_balance, transactions, credits, served>>
       ELSE LET t == FindById(transactions, transaction_id)
                transaction == transactions[t]
            IN  /\ served < MaxServed
                /\ served' = served + 1
                /\ transactions' = SetVerification(transactions,
                       FindById(transactions, transaction_id), status, MANUAL)
                /\ IF status = VERIFIED
                   THEN /\ cashback_balance' = IncBalance(cashback_balance,
                               u, transaction.cashback_amount)
                        /\ credits' = CountCredit(credits, t)
                   ELSE UNCHANGED <<cashback_balance, credits>>
                /\ response' = Response(200, "success")
    /\ UNCHANGED <<products, accounts, redemption_requests, debited, procs>>

\* PUT /admin/transactions/{transaction_id}/verify?status=... by user u
\* (any authenticated user: the handler checks no role)
admin_verify_transaction(u, transaction_id, status) ==
    /\ IF FindById(transactions, transaction_id) = 0
       THEN /\ response' = Response(404, "Transaction not found")
            /\ UNCHANGED <<cashback_balance, transactions, credits, served>>
       ELSE LET t == FindById(transactions, transaction_id)
                transaction == transactions[t]
            IN  /\ served < MaxServed
                /\ served' = served + 1
                /\ transactions' = SetVerification(transactions,
                       FindById(transactions, transaction_id), status, MANUAL)
                /\ IF status = VERIFIED
                   THEN /\ cashback_balance' = IncBalance(cashback_balance,
                               transaction.user_id, transaction.cashback_amount)
                        /\ credits' = CountCredit(credits, t)
                   ELSE UNCHANGED <<cashback_balance, credits>>
                /\ response' = Response(200, "success")
    /\ UNCHANGED <<products, accounts, redemption_requests, debited, procs>>

SeqNext ==
    \/ \E u \in UserIds, product_id \in ProductIdInputs,
          order_id \in ClaimOrderInputs, amount \in ClaimAmounts :
            create_transaction(u, product_id, order_id, amount)
    \/ \E u \in UserIds, amount \in RedeemAmounts, dest \in RedeemDestinations :
            create_redemption_request(u, amount, dest)
    \/ \E order_id \in WebhookOrderInputs : amazon_associates_webhook(order_id)
    \/ \E u \in UserIds, transaction_id \in TxIdInputs,
          status \in TransactionStatus :
            admin_verify_transaction(u, transaction_id, status)

SeqSpec == Init /\ [][SeqNext]_vars

(* ---------------- FlowSpec: the life of one claim ---------------------- *)
(* Requests one at a time, as in SeqSpec: users register payout            *)
(* destinations, one claim is submitted, the webhook verifies it, and its  *)
(* cashback is asked back as a redemption.                                 *)

\* POST /bank-accounts by user u (a well-formed body)
add_bank_account(u, is_default) ==
    /\ Len(bank_accounts) < MaxAccounts
    /\ bank_accounts' =
           Append(IF is_default THEN UnsetDefaults(bank_accounts, u)
                                ELSE bank_accounts,
                  NewBankAccount(AccountIds[Len(bank_accounts) + 1], u,
                                 is_default))
    /\ response' = Response(200, "bank_account")
    /\ UNCHANGED <<cashback_balance, products, transactions,
                   redemption_requests, credits, debited, served, procs,
                   upi_details, users>>

\* POST /upi by user u (a well-formed body)
add_upi(u, upi_id, is_default) ==
    /\ Len(upi_details) < MaxAccounts
    /\ upi_details' =
           Append(IF is_default THEN UnsetDefaults(upi_details, u)
                                ELSE upi_details,
                  NewUPIDetails(u, upi_id, is_default))
    /\ response' = Response(200, "upi")
    /\ UNCHANGED <<cashback_balance, products, transactions,
                   redemption_requests, credits, debited, served, procs,
                   bank_accounts, users>>

FlowNext ==
    \/ \E u \in UserIds, is_default \in BOOLEAN :
            add_bank_account(u, is_default)
    \/ \E u \in UserIds, upi_id \in UpiIds, is_default \in BOOLEAN :
            add_upi(u, upi_id, is_default)
    \/ \E u \in UserIds, product_id \in FlowProductIds,
          order_id \in FlowOrderIds, amount \in FlowClaimAmounts :
            /\ transactions = <<>>
            /\ create_transaction(u, product_id, order_id, amount)
    \/ \E order_id \in FlowOrderIds :
            /\ credits = <<0>>
            /\ amazon_associates_webhook(order_id)
    \/ \E u \in UserIds, dest \in FlowDestinations :
            /\ transactions # <<>>
            /\ redemption_requests = <<>>
            /\ create_redemption_request(u, transactions[1].cashback_amount,
                                         dest)

FlowSpec == Init /\ [][FlowNext]_vars

(* ---------------- FrameSpec: every handler, one at a time --------------- *)
(* Requests one at a time, as in SeqSpec, with the handlers that only read  *)
(* and the ones that write other collections than the transactions and the *)
(* balances.                                                               *)

\* POST /seed/products: delete_many({}) and six insert_one with fresh ids
seed_products ==
    /\ Generation(products) < MaxSeeds
    /\ products' = SeededProducts(Generation(products) + 1)
    /\ response' = Response(200, "products")
    /\ UNCHANGED <<cashback_balance, transactions, redemption_requests,
                   credits, debited, served, procs, accounts>>

\* GET /transactions by user u
get_user_transactions(u) ==
    /\ response' = ListResponse("transactions",
                       ToList(FindByUser(transactions, u), ListLimit))
    /\ UNCHANGED <<store, served, procs>>

\* GET /bank-accounts by user u
get_bank_accounts(u) ==
    /\ response' = ListResponse("bank_accounts",
                       ToList(FindByUser(bank_accounts, u), AccountListLimit))
    /\ UNCHANGED <<store, served, procs>>

\* GET /upi by user u
get_upi_details(u) ==
    /\ response' = ListResponse("upi",
                       ToList(FindByUser(upi_details, u), AccountListLimit))
    /\ UNCHANGED <<store, served, procs>>

\* GET /redemptions by user u
get_redemption_requests(u) ==
    /\ response' = ListResponse("redemptions",
                       ToList(FindByUser(redemption_requests, u), ListLimit))
    /\ UNCHANGED <<store, served, procs>>

FrameNext ==
    \/ \E u \in UserIds, product_id \in FrameProductIds,
          order_id \in FlowOrderIds, amount \in ClaimAmounts :
            create_transaction(u, product_id, order_id, amount)
    \/ \E order_id \in FlowOrderIds : amazon_associates_webhook(order_id)
    \/ \E u \in UserIds, transaction_id \in TxIdInputs,
          status \in FrameStatuses :
            admin_verify_transaction(u, transaction_id, status)
    \/ \E u \in UserIds, amount \in ConcRedeemAmounts,
          dest \in FlowDestinations :
            create_redemption_request(u, amount, dest)
    \/ \E u \in ConcUserIds : add_bank_account(u, TRUE)
    \/ \E u \in ConcUserIds, upi_id \in UpiIds : add_upi(u, upi_id, TRUE)
    \/ seed_products
    \/ \E u \in UserIds : get_user_transactions(u)
    \/ \E u \in UserIds : get_bank_accounts(u)
    \/ \E u \in UserIds : get_upi_details(u)
    \/ \E u \in UserIds : get_redemption_requests(u)

FrameSpec == Init /\ [][FrameNext]_vars

(* ---------------- ListSpec: many redemption requests ------------------- *)
(* Requests one at a time: one claim is verified by the webhook, and its   *)
(* owner asks its cashback back in small redemptions and lists them.       *)

ListNext ==
    \/ \E u \in ConcUserIds, product_id \in ConcProductIds,
          order_id \in ConcOrderIds, amount \in ListClaimAmounts :
            /\ transactions = <<>>
            /\ create_transaction(u, product_id, order_id, amount)
    \/ \E order_id \in ConcOrderIds :
            /\ credits = <<0>>
            /\ amazon_associates_webhook(order_id)
    \/ \E u \in UserIds, amount \in ListRedeemAmounts,
          dest \in ConcDestinations :
            /\ Len(redemption_requests) < MaxListed
            /\ create_redemption_request_uncounted(u, amount, dest)
            /\ UNCHANGED served
    \/ \E u \in UserIds : get_redemption_requests(u)

ListSpec == Init /\ [][ListNext]_vars

(* ---------------- Spec: concurrent request handlers -------------------- *)
(* A worker p runs one request; procs[p].pc names the store call it makes  *)
(* next, and the other fields hold the request's inputs and the handler's  *)
(* local variables.  get_current_user reads only the user's id for         *)
(* create_transaction and admin_verify_transaction, so its read is not a   *)
(* step of its own there.                                                  *)

\* worker p takes the request r and makes the store call `first` next
Begin(p, r, first) ==
    /\ procs[p] = Idle
    /\ procs' = [procs EXCEPT ![p] = [r EXCEPT !.pc = first]]
    /\ UNCHANGED <<store, response, served>>

\* worker p sends the response and is free again
Finish(p, resp) ==
    /\ procs' = [procs EXCEPT ![p] = Idle]
    /\ response' = resp
    /\ UNCHANGED served

\* worker p goes on to the store call `next`
Goto(p, next) ==
    /\ procs' = [procs EXCEPT ![p].pc = next]
    /\ UNCHANGED served

\* --- create_transaction

ct_start(p, u, product_id, order_id, amount) ==
    /\ Len(transactions) < MaxTx
    /\ Begin(p, [Idle EXCEPT !.op = "create_transaction", !.user = u,
                    !.product = product_id, !.order = order_id,
                    !.amount = amount], "find_product")

\* product = await db.products.find_one({"id": transaction.product_id})
ct_find_product(p) ==
    /\ procs[p].pc = "find_product"
    /\ IF ~ProductFound(products, procs[p].product)
       THEN Finish(p, Response(404, "Product not found"))
       ELSE /\ procs' = [procs EXCEPT
                   ![p].percent = ProductPercent(products, procs[p].product),
                   ![p].pc = "insert_transaction"]
            /\ UNCHANGED <<response, served>>
    /\ UNCHANGED store

\* await db.transactions.insert_one(new_transaction.dict())
ct_insert(p) ==
    /\ procs[p].pc = "insert_transaction"
    /\ transactions' = Append(transactions,
           NewTransaction(procs[p].user, procs[p].product, procs[p].order,
               procs[p].amount,
               CashbackAmount(procs[p].amount, procs[p].percent)))
    /\ credits' = Append(credits, 0)
    /\ Finish(p, Response(200, "transaction"))
    /\ UNCHANGED <<cashback_balance, products, accounts, redemption_requests,
                   debited>>

\* --- create_redemption_request

cr_start(p, u, amount, dest) ==
    /\ Len(redemption_requests) < MaxRedemptions
    /\ Begin(p, [Idle EXCEPT !.op = "create_redemption_request", !.user = u,
                    !.amount = amount, !.dest = dest], "get_current_user")

\* user = await db.users.find_one({"id": user_id}); return User(**user)
cr_get_current_user(p) ==
    /\ procs[p].pc = "get_current_user"
    /\ procs' = [procs EXCEPT
           ![p].balance = cashback_balance[procs[p].user],
           ![p].pc = "update_balance"]
    /\ UNCHANGED <<store, response, served>>

\* the checks on current_user, then
\* await db.users.update_one({"id": ...}, {"$inc": {"cashback_balance": -amount}})
cr_update_balance(p) ==
    /\ procs[p].pc = "update_balance"
    /\ procs[p].op = "create_redemption_request"
    /\ IF RedemptionError(procs[p].balance, procs[p].amount, procs[p].dest)
              # NoResponse
       THEN /\ Finish(p, RedemptionError(procs[p].balance, procs[p].amount,
                                         procs[p].dest))
            /\ UNCHANGED <<cashback_balance, debited>>
       ELSE /\ cashback_balance' =
                   IncBalance(cashback_balance, procs[p].user, -procs[p].amount)
            /\ debited' = [debited EXCEPT ![procs[p].user] = @ + procs[p].amount]
            /\ Goto(p, "insert_redemption")
            /\ UNCHANGED response
    /\ UNCHANGED <<products, accounts, transactions, redemption_requests,
                   credits>>

\* await db.redemption_requests.insert_one(new_redemption.dict())
cr_insert(p) ==
    /\ procs[p].pc = "insert_redemption"
    /\ redemption_requests' = Append(redemption_requests,
           NewRedemption(procs[p].user, procs[p].amount, procs[p].dest))
    /\ Finish(p, Response(200, "redemption"))
    /\ UNCHANGED <<cashback_balance, products, accounts, transactions,
                   credits, debited>>

\* --- amazon_associates_webhook

wh_start(p, order_id) ==
    /\ WithinCap(credits)
    /\ IF order_id = None
       THEN /\ procs[p] = Idle
            /\ response' = Response(400, "Missing order ID")
            /\ UNCHANGED <<store, procs, served>>
       ELSE Begin(p, [Idle EXCEPT !.op = "amazon_associates_webhook",
                         !.order = order_id], "find_transaction")

\* transaction = await db.transactions.find_one({"amazon_order_id": order_id})
wh_find(p) ==
    /\ procs[p].pc = "find_transaction"
    /\ procs[p].op = "amazon_associates_webhook"
    /\ LET t == FindByOrder(transactions, procs[p].order)
       IN  IF t = 0
           THEN Finish(p, Response(200, "No matching transaction found"))
           ELSE /\ procs' = [procs EXCEPT
                       ![p].tx = t,
                       ![p].tx_user = transactions[t].user_id,
                       ![p].tx_cashback = transactions[t].cashback_amount,
                       ![p].tx_status = transactions[t].status,
                       ![p].pc = "update_transaction"]
                /\ UNCHANGED <<response, served>>
    /\ UNCHANGED store

\* await db.transactions.update_one({"amazon_order_id": order_id}, {"$set": ...})
wh_update(p) ==
    /\ procs[p].pc = "update_transaction"
    /\ procs[p].op = "amazon_associates_webhook"
    /\ transactions' = SetVerification(transactions,
           FindByOrder(transactions, procs[p].order), VERIFIED, WEBHOOK)
    /\ Goto(p, "update_balance")
    /\ UNCHANGED <<cashback_balance, products, accounts, redemption_requests,
                   credits, debited, response>>

\* await db.users.update_one({"id": transaction["user_id"]},
\*     {"$inc": {"cashback_balance": transaction["cashback_amount"]}})
wh_inc(p) ==
    /\ procs[p].pc = "update_balance"
    /\ procs[p].op = "amazon_associates_webhook"
    /\ cashback_balance' =
           IncBalance(cashback_balance, procs[p].tx_user, procs[p].tx_cashback)
    /\ credits' = CountCredit(credits, procs[p].tx)
    /\ Finish(p, Response(200, "success"))
    /\ UNCHANGED <<products, accounts, transactions, redemption_requests,
                   debited>>

\* --- admin_verify_transaction

av_start(p, u, transaction_id, status) ==
    /\ status = VERIFIED => WithinCap(credits)
    /\ Begin(p, [Idle EXCEPT !.op = "admin_verify_transaction", !.user = u,
                    !.tx = transaction_id, !.status = status],
             "find_transaction")

\* transaction = await db.transactions.find_one({"id": transaction_id})
av_find(p) ==
    /\ procs[p].pc = "find_transaction"
    /\ procs[p].op = "admin_verify_transaction"
    /\ LET t == FindById(transactions, procs[p].tx)
       IN  IF t = 0
           THEN Finish(p, Response(404, "Transaction not found"))
           ELSE /\ procs' = [procs EXCEPT
                       ![p].tx_user = transactions[t].user_id,
                       ![p].tx_cashback = transactions[t].cashback_amount,
                       ![p].tx_status = transactions[t].status,
                       ![p].pc = "update_transaction"]
                /\ UNCHANGED <<response, served>>
    /\ UNCHANGED store

\* await db.transactions.update_one({"id": transaction_id}, {"$set": update_data})
av_update(p) ==
    /\ procs[p].pc = "update_transaction"
    /\ procs[p].op = "admin_verify_transaction"
    /\ transactions' = SetVerification(transactions,
           FindById(transactions, procs[p].tx), procs[p].status, MANUAL)
    /\ IF procs[p].status = VERIFIED
       THEN Goto(p, "update_balance") /\ UNCHANGED response
       ELSE Finish(p, Response(200, "success"))
    /\ UNCHANGED <<cashback_balance, products, accounts, redemption_requests,
                   credits, debited>>

\* if status == VERIFIED: await db.users.update_one(..., {"$inc": ...})
av_inc(p) ==
    /\ procs[p].pc = "update_balance"
    /\ procs[p].op = "admin_verify_transaction"
    /\ cashback_balance' =
           IncBalance(cashback_balance, procs[p].tx_user, procs[p].tx_cashback)
    /\ credits' = CountCredit(credits, procs[p].tx)
    /\ Finish(p, Response(200, "success"))
    /\ UNCHANGED <<products, accounts, transactions, redemption_requests,
                   debited>>

\* the worker stops between two store calls (process killed, connection
\* lost): the request is abandoned where it is and no response is sent
crash(p) ==
    /\ procs[p] # Idle
    /\ procs' = [procs EXCEPT ![p] = Idle]
    /\ UNCHANGED <<store, response, served>>

Next ==
    \/ \E p \in Procs, u \in ConcUserIds, product_id \in ConcProductIds,
          order_id \in ConcOrderIds, amount \in ClaimAmounts :
            ct_start(p, u, product_id, order_id, amount)
    \/ \E p \in Procs : ct_find_product(p)
    \/ \E p \in Procs : ct_insert(p)
    \/ \E p \in Procs, u \in ConcUserIds, amount \in ConcRedeemAmounts,
          dest \in ConcDestinations : cr_start(p, u, amount, dest)
    \/ \E p \in Procs : cr_get_current_user(p)
    \/ \E p \in Procs : cr_update_balance(p)
    \/ \E p \in Procs : cr_insert(p)
    \/ \E p \in Procs, order_id \in ConcOrderIds : wh_start(p, order_id)
    \/ \E p \in Procs : wh_find(p)
    \/ \E p \in Procs : wh_update(p)
    \/ \E p \in Procs : wh_inc(p)
    \/ \E p \in Procs, u \in ConcUserIds, transaction_id \in ConcTxIds,
          status \in ConcStatuses : av_start(p, u, transaction_id, status)
    \/ \E p \in Procs : av_find(p)
    \/ \E p \in Procs : av_update(p)
    \/ \E p \in Procs : av_inc(p)
    \/ \E p \in Procs : crash(p)

Spec == Init /\ [][Next]_vars

(* ---------------- LedgerSpec: concurrent balance updates --------------- *)
(* The handlers that update a balance, run by the workers as in Spec: manual *)
(* verifications with status VERIFIED of up to MaxLedgerTx transactions of   *)
(* one user, and the user's redemption requests.  The claims themselves are  *)
(* served whole.                                                             *)

LedgerNext ==
    \/ \E u \in ConcUserIds, product_id \in ConcProductIds,
          amount \in ClaimAmounts :
            /\ Len(transactions) < MaxLedgerTx
            /\ create_transaction(u, product_id, None, amount)
    \/ \E p \in Procs, u \in ConcUserIds, transaction_id \in 1..MaxLedgerTx :
            av_start(p, u, transaction_id, VERIFIED)
    \/ \E p \in Procs : av_find(p)
    \/ \E p \in Procs : av_update(p)
    \/ \E p \in Procs : av_inc(p)
    \/ \E p \in Procs, u \in ConcUserIds, amount \in ConcRedeemAmounts,
          dest \in ConcDestinations : cr_start(p, u, amount, dest)
    \/ \E p \in Procs : cr_get_current_user(p)
    \/ \E p \in Procs : cr_update_balance(p)
    \/ \E p \in Procs : cr_insert(p)

LedgerSpec == Init /\ [][LedgerNext]_vars

(* ------------------------- RegSpec: registration ----------------------- *)
(* register_user split at its two awaits: the lookup by email and the      *)
(* insert.  The users collection has no unique index.                      *)

\* the emails of the registration requests: one that is registered from
\* the start and two that are not
RegEmails == {"e1", "e3", "e4"}

\* User.id = str(uuid.uuid4()): a value no earlier document has
NewUserId(us) == "u" \o ToString(Len(us) + 1)

\* db.users.find_one({"email": email}): the position of the first document
\* that matches, 0 if none matches
FindByEmail(us, email) ==
    LET m == { i \in 1..Len(us) : us[i].email = email }
    IN  IF m = {} THEN 0 ELSE CHOOSE i \in m : \A j \in m : i <= j

rg_start(p, email) ==
    /\ Len(users) < MaxUsers
    /\ Begin(p, [Idle EXCEPT !.op = "register_user", !.email = email],
             "get_user_by_email")

\* existing_user = await get_user_by_email(user.email)
rg_find(p) ==
    /\ procs[p].pc = "get_user_by_email"
    /\ IF FindByEmail(users, procs[p].email) # 0
       THEN Finish(p, Response(400, "Email already registered"))
       ELSE Goto(p, "insert_user") /\ UNCHANGED response
    /\ UNCHANGED store

\* await db.users.insert_one(new_user_dict): the document carries
\* cashback_balance = 0.0
rg_insert(p) ==
    /\ procs[p].pc = "insert_user"
    /\ LET id == NewUserId(users)
       IN  /\ users' = Append(users, [id |-> id, email |-> procs[p].email])
           /\ cashback_balance' =
                  [i \in DOMAIN cashback_balance \cup {id} |->
                      IF i = id THEN 0 ELSE cashback_balance[i]]
    /\ Finish(p, Response(200, "user"))
    /\ UNCHANGED <<products, transactions, redemption_requests, credits,
                   debited, bank_accounts, upi_details>>

RegNext ==
    \/ \E p \in Procs, email \in RegEmails : rg_start(p, email)
    \/ \E p \in Procs : rg_find(p)
    \/ \E p \in Procs : rg_insert(p)

RegSpec == Init /\ [][RegNext]_vars

(* ------------------------------ properties ----------------------------- *)

\* the sum of the amounts of user u's redemption requests
RECURSIVE RedeemedTotal(_, _)
RedeemedTotal(reqs, u) ==
    IF reqs = <<>> THEN 0
    ELSE (IF reqs[1].user_id = u THEN reqs[1].amount ELSE 0)
         + RedeemedTotal(Tail(reqs), u)

\* C1 (SeqSpec): whatever webhook deliveries and manual verifications have
\* run one after the other, every transaction has been credited to its owner
\* at most once, and exactly once when it is VERIFIED: a repeated delivery or
\* a repeated manual verification of a VERIFIED transaction adds no credit.
C1_CreditedExactlyOnce ==
    \A t \in DOMAIN transactions :
        /\ credits[t] <= 1
        /\ transactions[t].status = VERIFIED => credits[t] = 1

\* C2 (Spec): when verifications of one transaction overlap, only one of them
\* credits the owner: a handler that found the transaction PENDING applies
\* its credit only if no credit has been applied for that transaction yet.
C2_ConcurrentVerifyCreditsOnce ==
    [][\A p \in Procs :
          ((wh_inc(p) \/ av_inc(p)) /\ procs[p].tx_status = PENDING)
              => credits[procs[p].tx] = 0]_vars

\* C3 (SeqSpec): a redemption request that runs on its own never takes a
\* balance below zero: from balances that are all >= 0 it leaves all
\* balances >= 0 (and the balances start at 0).  Stated as: every step
\* either leaves all balances >= 0, or is not a redemption request served
\* from balances that were all >= 0.
C3_RedemptionKeepsBalanceNonNegative ==
    [][\/ \A v \in UserIds : cashback_balance'[v] >= 0
       \/ ~ /\ \A v \in UserIds : cashback_balance[v] >= 0
            /\ \E u \in UserIds, amount \in RedeemAmounts,
                  dest \in RedeemDestinations :
                    create_redemption_request(u, amount, dest)]_vars

\* C3 witness: a redemption of a positive amount succeeded and took the
\* whole balance of its user
C3_Witness ==
    /\ response = Response(200, "redemption")
    /\ \E i \in DOMAIN redemption_requests :
          /\ redemption_requests[i].amount > 0
          /\ cashback_balance[redemption_requests[i].user_id] = 0

\* C4 (Spec): with redemption requests of one user overlapping, no debit
\* takes the user's balance from >= 0 to below 0 (two debits never both
\* succeed when the balance covers only one).
C4_ConcurrentDebitsKeepBalanceNonNegative ==
    [][\A p \in Procs :
          (/\ procs[p].op = "create_redemption_request"
           /\ cashback_balance[procs[p].user] >= 0
           /\ cr_update_balance(p))
              => cashback_balance'[procs[p].user] >= 0]_vars

\* C5 (SeqSpec): VERIFIED and REJECTED are terminal: no request changes the
\* status of a transaction that is VERIFIED or REJECTED.
C5_TerminalStatus ==
    [][\A t \in DOMAIN transactions :
          transactions[t].status \in {VERIFIED, REJECTED}
              => transactions'[t].status = transactions[t].status]_vars

\* C6 (SeqSpec): a manual verification of a transaction that is not PENDING
\* is answered with 409 Conflict and changes no transaction and no balance.
C6_ManualOnNonPendingIsConflict ==
    [][\A u \in UserIds, tid \in TxIdInputs, status \in TransactionStatus :
          (/\ tid \in DOMAIN transactions
           /\ transactions[tid].status # PENDING
           /\ admin_verify_transaction(u, tid, status))
              => /\ response'.status_code = 409
                 /\ UNCHANGED <<transactions, cashback_balance>>]_vars

\* C7 (Spec): in every state, also between two store calls of a handler and
\* after a handler stopped there, a VERIFIED transaction has been credited
\* to its owner and a credited transaction is not PENDING.
C7_VerifiedIffCredited ==
    \A t \in DOMAIN transactions :
        /\ transactions[t].status = VERIFIED => credits[t] >= 1
        /\ credits[t] >= 1 => transactions[t].status # PENDING

\* C8 (Spec): in every state, also between two store calls of a handler and
\* after a handler stopped there, what the redemption handler has taken from
\* a user's balance is the total of the user's redemption request records.
C8_DebitedIffRecorded ==
    \A u \in UserIds : debited[u] = RedeemedTotal(redemption_requests, u)

C10_NonPositiveAmountRejected ==
    [][\A u \in UserIds, amount \in RedeemAmounts, dest \in RedeemDestinations :
          (amount <= 0 /\ create_redemption_request(u, amount, dest))
              => /\ response'.status_code \in {400, 422}
                 /\ UNCHANGED <<cashback_balance, redemption_requests>>]_vars

\* C11 (FlowSpec): a claim with amount <= 0 is refused (400 or 422) and
\* creates no transaction, and so a credit never lowers a balance: a webhook
\* verification leaves no user's balance below what it was.
C11_NonPositiveClaimRejected ==
    [][/\ \A u \in UserIds, product_id \in FlowProductIds,
             order_id \in FlowOrderIds, amount \in FlowClaimAmounts :
              (amount <= 0
                 /\ create_transaction(u, product_id, order_id, amount))
                  => /\ response'.status_code \in {400, 422}
                     /\ UNCHANGED transactions
       /\ (\E order_id \in FlowOrderIds :
              amazon_associates_webhook(order_id))
              => \A u \in UserIds :
                    cashback_balance'[u] >= cashback_balance[u]]_vars

NamesForeignRecord(u, dest) ==
    IF dest[1] = BANK_TRANSFER
    THEN /\ \E i \in DOMAIN bank_accounts : bank_accounts[i].id = dest[2]
         /\ \A i \in DOMAIN bank_accounts :
                bank_accounts[i].id = dest[2] => bank_accounts[i].user_id # u
    ELSE /\ \E i \in DOMAIN upi_details : upi_details[i].upi_id = dest[3]
         /\ \A i \in DOMAIN upi_details :
                upi_details[i].upi_id = dest[3] => upi_details[i].user_id # u

\* C14 (FlowSpec): a redemption request (of a positive amount) whose
\* bank_account_id or upi_id names a record of another user is refused with
\* 400 and creates no redemption request.
C14_ForeignDestinationRejected ==
    [][\A u \in UserIds, dest \in FlowDestinations :
          (/\ NamesForeignRecord(u, dest)
           /\ Len(transactions) = 1
           /\ transactions[1].cashback_amount > 0
           /\ create_redemption_request(u, transactions[1].cashback_amount,
                                        dest))
              => /\ response'.status_code = 400
                 /\ UNCHANGED <<cashback_balance, redemption_requests>>]_vars

\* C15 (SeqSpec): a webhook delivery whose order id is matched by a PENDING
\* transaction sets that transaction to VERIFIED with method WEBHOOK and adds
\* exactly its cashback_amount to the balance of its owner; every other
\* balance and every other transaction stay as they were.
C15_WebhookVerifiesAndCredits ==
    [][\A order_id \in OrderIds :
          LET t == FindByOrder(transactions, order_id)
          IN  (/\ t # 0
               /\ transactions[t].status = PENDING
               /\ amazon_associates_webhook(order_id))
                  => /\ transactions' =
                           [transactions EXCEPT
                               ![t].status = VERIFIED,
                               ![t].verification_method = WEBHOOK]
                     /\ cashback_balance' =
                           [cashback_balance EXCEPT
                               ![transactions[t].user_id] =
                                   @ + transactions[t].cashback_amount]]_vars

\* C15 witness: the webhook verified a transaction and its owner holds the
\* cashback while the other user holds nothing
C15_Witness ==
    /\ response = Response(200, "success")
    /\ \E t \in DOMAIN transactions :
          /\ transactions[t].status = VERIFIED
          /\ transactions[t].verification_method = WEBHOOK
          /\ credits[t] = 1
          /\ transactions[t].cashback_amount > 0
          /\ \A u \in UserIds :
                cashback_balance[u] =
                    IF u = transactions[t].user_id
                    THEN transactions[t].cashback_amount ELSE 0

\* C16 (SeqSpec): a manual verification with status REJECTED of a PENDING
\* transaction sets that transaction to REJECTED with method MANUAL, leaves
\* every other transaction as it was and changes no user's balance.
C16_ManualRejectChangesNoBalance ==
    [][\A u \in UserIds, tid \in TxIdInputs :
          (/\ tid \in DOMAIN transactions
           /\ transactions[tid].status = PENDING
           /\ admin_verify_transaction(u, tid, REJECTED))
              => /\ transactions' =
                       [transactions EXCEPT
                           ![tid].status = REJECTED,
                           ![tid].verification_method = MANUAL]
                 /\ UNCHANGED cashback_balance]_vars

\* C16 witness: a manual verification rejected a transaction, which was
\* never credited
C16_Witness ==
    /\ response = Response(200, "success")
    /\ \E t \in DOMAIN transactions :
          /\ transactions[t].status = REJECTED
          /\ transactions[t].verification_method = MANUAL
          /\ credits[t] = 0

\* C17 (SeqSpec): a webhook delivery for an order id that no transaction
\* carries is answered 200 "No matching transaction found" (no error) and
\* changes no transaction and no balance.
C17_WebhookNoMatchIsSoft ==
    [][\A order_id \in OrderIds :
          (/\ \A t \in DOMAIN transactions :
                  transactions[t].amazon_order_id # order_id
           /\ amazon_associates_webhook(order_id))
              => /\ response' = Response(200, "No matching transaction found")
                 /\ UNCHANGED <<transactions, cashback_balance>>]_vars

\* C17 witness: the webhook reported no match while a transaction, still
\* PENDING, is in the store
C17_Witness ==
    /\ response = Response(200, "No matching transaction found")
    /\ transactions # <<>>
    /\ \A t \in DOMAIN transactions : transactions[t].status = PENDING
    /\ \A u \in UserIds : cashback_balance[u] = 0

\* C18 (FlowSpec): a claim for a product id the catalogue does not hold is
\* answered 404 "Product not found" and creates no transaction; a claim for
\* a product of the catalogue adds exactly one transaction, owned by the
\* caller, PENDING, carrying the claim's product, order id and amount, with
\* cashback_amount = amount * cashback_percent / 100 (100.0 at 5.0 % is 5.0).
C18_ClaimCreatesPendingTransaction ==
    [][\A u \in UserIds, product_id \in FlowProductIds,
          order_id \in FlowOrderIds, amount \in FlowClaimAmounts :
          create_transaction(u, product_id, order_id, amount)
              => IF \A d \in products : d.id # product_id
                 THEN /\ response' = Response(404, "Product not found")
                      /\ UNCHANGED transactions
                 ELSE /\ Len(transactions') = Len(transactions) + 1
                      /\ SubSeq(transactions', 1, Len(transactions))
                             = transactions
                      /\ LET new == transactions'[Len(transactions')]
                         IN  /\ new.user_id = u
                             /\ new.status = PENDING
                             /\ new.product_id = product_id
                             /\ new.amazon_order_id = order_id
                             /\ new.amount = amount
                             /\ \A d \in products :
                                   d.id = product_id =>
                                     new.cashback_amount * 1000
                                         = amount * d.cashback_percent
                             /\ (amount = 1000 /\ product_id = ProductId(1, 1))
                                   => new.cashback_amount = 50]_vars

\* C18 witness: a claim of 100.0 on the 3.5 % product was accepted and is
\* stored PENDING with cashback 3.5
C18_Witness ==
    /\ response = Response(200, "transaction")
    /\ Len(transactions) = 1
    /\ transactions[1].status = PENDING
    /\ transactions[1].product_id = ProductId(1, 2)
    /\ transactions[1].amount = 1000
    /\ transactions[1].cashback_amount = 35

\* the sum, over the transactions of user u, of cashback_amount times the
\* number of credits applied on behalf of the transaction
RECURSIVE CreditedTotal(_, _, _)
CreditedTotal(txs, cr, u) ==
    IF txs = <<>> THEN 0
    ELSE (IF txs[1].user_id = u THEN txs[1].cashback_amount * cr[1] ELSE 0)
         + CreditedTotal(Tail(txs), Tail(cr), u)

\* C19 (LedgerSpec): no balance update is lost.  In every state, with
\* credits (of one or of different transactions) and debits of one user
\* overlapping in any way, the user's balance is the initial balance (0)
\* plus every credit applied minus every debit applied.
C19_NoLostUpdate ==
    \A u \in UserIds :
        cashback_balance[u] =
            CreditedTotal(transactions, credits, u) - debited[u]

\* C19 witness: a redemption read the balance 5.0 and debited it, and has
\* not finished; after its read the credit of a second transaction was
\* applied; the balance is 5.0 + 5.0 - 5.0
C19_Witness ==
    /\ \E p \in Procs :
          /\ procs[p].op = "create_redemption_request"
          /\ procs[p].pc = "insert_redemption"
          /\ procs[p].balance = 50
          /\ procs[p].amount = 50
          /\ debited[procs[p].user] = 50
          /\ cashback_balance[procs[p].user] = 50
    /\ credits = <<1, 1>>

\* C20 (SeqSpec): amazon_order_id is unique where present: after any
\* sequence of claims no two transactions carry the same order id other than
\* None (a claim that repeats an order id is refused and stores nothing).
C20_OrderIdUnique ==
    \A s \in DOMAIN transactions, t \in DOMAIN transactions :
        (s # t /\ transactions[s].amazon_order_id # None)
            => transactions[s].amazon_order_id # transactions[t].amazon_order_id

\* C21 (SeqSpec): a manual verification for a transaction id that no stored
\* transaction has is answered 404 "Transaction not found" and changes no
\* transaction and no balance.
C21_ManualVerifyUnknownIsNotFound ==
    [][\A u \in UserIds, tid \in TxIdInputs, status \in TransactionStatus :
          (/\ tid \notin DOMAIN transactions
           /\ admin_verify_transaction(u, tid, status))
              => /\ response' = Response(404, "Transaction not found")
                 /\ UNCHANGED <<transactions, cashback_balance>>]_vars

\* C21 witness: 404 was answered while a transaction, still PENDING, is in
\* the store
C21_Witness ==
    /\ response = Response(404, "Transaction not found")
    /\ transactions # <<>>
    /\ \A t \in DOMAIN transactions : transactions[t].status = PENDING
    /\ \A u \in UserIds : cashback_balance[u] = 0

\* C22 (FrameSpec): a balance is changed by verifications and redemptions
\* only.  Every step leaves all balances as they were (so do claims,
\* listings, added bank accounts and UPI ids, seeding), or each user whose
\* balance it changes is the owner of the transaction that a webhook or a
\* manual verification with status VERIFIED verifies in this step, or the
\* caller of the redemption request served in this step.
C22_BalanceFrame ==
    [][\/ cashback_balance' = cashback_balance
       \/ \A b \in UserIds :
            cashback_balance'[b] # cashback_balance[b] =>
              \/ \E order_id \in FlowOrderIds :
                    /\ FindByOrder(transactions, order_id) # 0
                    /\ transactions[FindByOrder(transactions, order_id)].user_id
                           = b
                    /\ amazon_associates_webhook(order_id)
              \/ \E u \in UserIds, tid \in TxIdInputs :
                    /\ tid \in DOMAIN transactions
                    /\ transactions[tid].user_id = b
                    /\ admin_verify_transaction(u, tid, VERIFIED)
              \/ \E amount \in ConcRedeemAmounts, dest \in FlowDestinations :
                    create_redemption_request(b, amount, dest)]_vars

\* C22 witness: after a manual verification the owner of the one transaction
\* holds its cashback and the other user holds nothing, with a second
\* catalogue seeded and a bank account added
C22_Witness ==
    /\ response = Response(200, "success")
    /\ Len(transactions) = 1
    /\ transactions[1].status = VERIFIED
    /\ transactions[1].verification_method = MANUAL
    /\ credits = <<1>>
    /\ \A u \in UserIds :
          cashback_balance[u] =
              IF u = transactions[1].user_id
              THEN transactions[1].cashback_amount ELSE 0
    /\ transactions[1].user_id = "u2"
    /\ Generation(products) = 2
    /\ bank_accounts # <<>>

\* C23 (FrameSpec): the cashback_amount of a transaction is fixed when the
\* transaction is created.  No step (a verification, the seeding of a new
\* catalogue, another claim, any other request) changes the cashback_amount
\* of a stored transaction, which stays amount * cashback_percent / 100 for
\* the percentage its product had, and a webhook or manual verification
\* adds exactly the stored cashback_amount to the owner's balance.
C23_CashbackFixedAtCreation ==
    [][/\ \A t \in DOMAIN transactions :
             /\ transactions'[t].cashback_amount
                    = transactions[t].cashback_amount
             /\ transactions[t].cashback_amount * 1000
                    = transactions[t].amount
                        * SeedPercents[transactions[t].product_id[2]]
       /\ \A order_id \in FlowOrderIds :
             LET t == FindByOrder(transactions, order_id)
             IN  (t # 0 /\ amazon_associates_webhook(order_id))
                    => cashback_balance'[transactions[t].user_id]
                          = cashback_balance[transactions[t].user_id]
                              + transactions'[t].cashback_amount
       /\ \A u \in UserIds, tid \in TxIdInputs :
             (tid \in DOMAIN transactions
                /\ admin_verify_transaction(u, tid, VERIFIED))
                    => cashback_balance'[transactions[tid].user_id]
                          = cashback_balance[transactions[tid].user_id]
                              + transactions'[tid].cashback_amount]_vars

\* C23 witness: a transaction of a product of the first catalogue was
\* verified after the second catalogue replaced the first; it still carries
\* its cashback 5.0, and that is what its owner was credited
C23_Witness ==
    /\ response = Response(200, "success")
    /\ Generation(products) = 2
    /\ Len(transactions) = 1
    /\ transactions[1].product_id = ProductId(1, 1)
    /\ transactions[1].status = VERIFIED
    /\ transactions[1].cashback_amount = 50
    /\ credits = <<1>>
    /\ cashback_balance[transactions[1].user_id] = 50

\* C24 (ListSpec): the list GET /redemptions returns to user u is made of
\* all the redemption requests of u in the store, and of nothing else.
C24_ListReturnsAllOwnRequests ==
    [][\A u \in UserIds :
          get_redemption_requests(u)
              => response'.body = FindByUser(redemption_requests, u)]_vars

\* the sum of cashback_amount over the VERIFIED transactions of user u
RECURSIVE VerifiedTotal(_, _)
VerifiedTotal(txs, u) ==
    IF txs = <<>> THEN 0
    ELSE (IF txs[1].user_id = u /\ txs[1].status = VERIFIED
          THEN txs[1].cashback_amount ELSE 0)
         + VerifiedTotal(Tail(txs), u)

\* C25 (SeqSpec): conservation.  In every state between two requests, the
\* balance of each user is the sum of cashback_amount over the user's
\* VERIFIED transactions minus the sum of amount over the user's redemption
\* requests.
C25_Conservation ==
    \A u \in UserIds :
        cashback_balance[u] =
            VerifiedTotal(transactions, u)
                - RedeemedTotal(redemption_requests, u)

\* C26 (RegSpec): registration keeps emails unique.  After any interleaving
\* of register_user calls, each a lookup by email followed by an insert, no
\* two documents of the users collection share an email.
C26_EmailsUnique ==
    \A i, j \in DOMAIN users : users[i].email = users[j].email => i = j

=============================================================================
